---- MODULE Spec2Model ----
(***************************************************************************)
(* Model of rayoptics/raytr/trace.py: the safe-trace wrapper, iterative    *)
(* ray aiming, the chief-ray cache on a Field, and the batch sampling      *)
(* engines (boundary rays, fan, grid).                                     *)
(*                                                                         *)
(* Python values are tagged records so that values of different Python     *)
(* types can be compared.  A call is one action: it computes the whole     *)
(* handler and leaves the call's arguments in `call` and its outcome       *)
(* (returned value or raised exception, number of primitive traces) in     *)
(* `ret`.                                                                  *)
(***************************************************************************)
EXTENDS Integers, Sequences, FiniteSets, TLC

VARIABLES opt_model, fld, grid_rng, call, ret

vars == <<opt_model, fld, grid_rng, call, ret>>

-----------------------------------------------------------------------------
(* Bounds *)

\* number of interfaces of the sequential model (object .. image)
NumSurf == 5
\* most residual evaluations one root-finder run makes
MaxEvals == 2
\* samples per axis of a grid, samples of a fan
GridNum == 2
\* most pupil points at which the model's trace fails
MaxFail == 2

-----------------------------------------------------------------------------
(* Python values *)

NoneV == [tag |-> "None"]
Num(n) == [tag |-> "num", v |-> n]
Vec2(x, y) == [tag |-> "vec2", x |-> x, y |-> y]

Return(v) == [status |-> "return", value |-> v]
Raise(e) == [status |-> "raise", exc |-> e]
Returned(r) == r.status = "return"

\* the element of a singleton: The({F(x) : x \in {e}}) is F(e) with e
\* evaluated once
The(S) == CHOOSE v \in S : TRUE
Raised(r) == r.status = "raise"

\* exceptions that are not trace errors
PyError(name) == [tag |-> name]
IsTraceError(e) == e.tag = "TraceError"

Wvls == {550, 650}
Focs == {0, 1}

\* the outcomes of the trace primitive: success, or a failure at a surface
\* with the ray traced up to there (plen segments)
OkOutcome == [kind |-> "ok", surf |-> 0, plen |-> 0]
ErrOutcomes ==
    {[kind |-> k, surf |-> s, plen |-> s] : k \in {"miss", "tir"}, s \in 0..(NumSurf - 1)}
        \cup {[kind |-> "tir", surf |-> s, plen |-> s + 1] : s \in 0..(NumSurf - 1)}
        \cup {[kind |-> "generic", surf |-> s, plen |-> s] : s \in {1}}

\* one ray segment [pt, after_dir, after_dst, normal]; segment 0 sits on the
\* object point, the later ones follow the aim point on the pupil plane
RaySegAt(pt0, pt1, i) ==
    [p |-> IF i = 0 THEN <<pt0[1], pt0[2], 0>> ELSE <<pt1[1], pt1[2], i>>,
     d |-> <<0, 0, 1>>, dst |-> 1, nrml |-> <<0, 0, 1>>]

\* (ray, op_delta, wvl) with n segments; typ tells a plain tuple of lists
\* from a RayPkg of RaySeg named tuples
MkPkg(pt0, pt1, wvl, n) ==
    [tag |-> "pkg", typ |-> "tuple",
     ray |-> [i \in 1..n |-> RaySegAt(pt0, pt1, i - 1)],
     op |-> n, wvl |-> wvl]

TraceError(o, pkg) ==
    [tag |-> "TraceError", kind |-> o.kind, surf |-> o.surf, ray_pkg |-> pkg]

\* rt.trace: the sequential trace primitive; `o` is what the optical system
\* does to the ray launched from pt0 towards pt1
rt_trace(o, pt0, pt1, wvl) ==
    IF o.kind = "ok"
    THEN Return(MkPkg(pt0, pt1, wvl, NumSurf))
    ELSE Raise(TraceError(o, MkPkg(pt0, pt1, wvl, o.plen)))

\* the optical system's answer for the ray aimed at pupil-plane point pt1
SystemOutcome(om, pt1) == IF pt1 \in om.blocked THEN om.err ELSE OkOutcome

\* fld.apply_vignetting(pupil) for a field without vignetting factors
apply_vignetting(f, pupil) == pupil

\* osp.obj_coords(fld)
obj_coords(f) == <<f.x, f.y>>

\* [RaySeg(*rs) for rs in ray]; RayPkg(ray, op_delta, wvl)
AsNamed(pkg) == [pkg EXCEPT !.typ = "RayPkg"]

\* RayPkg(ray, op, wvl) around the raw segment lists
AsRayPkg(pkg, named) == [pkg EXCEPT !.typ = IF named THEN "RayPkg" ELSE "RayPkgRaw"]

trace_base(om, pupil, f, wvl) ==
    LET vig_pupil == apply_vignetting(f, pupil)
        aim_pt == IF f.aim_pt # NoneV THEN <<f.aim_pt.x, f.aim_pt.y>> ELSE <<0, 0>>
        pt1 == <<om.enp_radius * vig_pupil[1] + aim_pt[1],
                 om.enp_radius * vig_pupil[2] + aim_pt[2]>>
        pt0 == obj_coords(f)
    IN  rt_trace(SystemOutcome(om, pt1), pt0, pt1, wvl)

-----------------------------------------------------------------------------
(* trace_safe *)

OutputFilters == {"None", "last", "F_count", "F_none"}
RayerrFilters == {"None", "summary", "full", "other"}

\* the caller-supplied reduction functions F
ApplyOutputFilter(F, pkg) ==
    IF F = "F_count" THEN Num(Len(pkg.ray)) ELSE NoneV

\* ray[-1]
LastSeg(pkg) == pkg.ray[Len(pkg.ray)]

SuccessResult(output_filter, ray_pkg) ==
    IF output_filter = "None" THEN Return(ray_pkg)
    ELSE IF output_filter = "last"
         THEN IF Len(ray_pkg.ray) = 0
              THEN Raise(PyError("IndexError"))
              ELSE Return([tag |-> "final_seg_pkg", seg |-> LastSeg(ray_pkg),
                           op |-> ray_pkg.op, wvl |-> ray_pkg.wvl])
         ELSE Return(ApplyOutputFilter(output_filter, ray_pkg))

FailureResultSwapped(rayerr_filter, rayerr) ==
    IF rayerr_filter = "None" THEN NoneV
    ELSE IF rayerr_filter = "summary"
         THEN [rayerr EXCEPT !.ray_pkg = AsNamed(rayerr.ray_pkg)]
         ELSE IF rayerr_filter = "full"
              THEN [rayerr EXCEPT !.ray_pkg = NoneV]
              ELSE NoneV

FailureResult(rayerr_filter, rayerr) ==
    IF rayerr_filter = "None" THEN NoneV
    ELSE IF rayerr_filter = "full"
         THEN [rayerr EXCEPT !.ray_pkg = AsNamed(rayerr.ray_pkg)]
         ELSE IF rayerr_filter = "summary"
              THEN [rayerr EXCEPT !.ray_pkg = NoneV]
              ELSE NoneV

trace_safe(om, pupil, f, wvl, output_filter, rayerr_filter, use_named_tuples) ==
    LET t == trace_base(om, pupil, f, wvl)
    IN  IF Raised(t)
        THEN Return(FailureResult(rayerr_filter, t.exc))
        ELSE SuccessResult(output_filter,
                           IF use_named_tuples THEN AsNamed(t.value) ELSE t.value)

-----------------------------------------------------------------------------
(* State *)

NoCall == [op |-> "none"]
NoRet == [res |-> Return(NoneV), ntraces |-> 0]

\* a Field: the field point, the aim point override and the two cached values
Field0(y) == [x |-> 0, y |-> y, aim_pt |-> NoneV, chief_ray |-> NoneV, ref_sphere |-> NoneV]

Origin == <<0, 0>>

OptModel(blocked, err, stop) ==
    [blocked |-> blocked, err |-> err, stop |-> stop, enp_radius |-> 1]

NoRng == [start |-> Origin, stop |-> Origin, num |-> GridNum]

\* the sets of at most n of the points pts: where the system fails a ray
RECURSIVE FailSets(_, _)
FailSets(pts, n) ==
    IF n = 0 THEN {{}}
    ELSE LET fewer == FailSets(pts, n - 1)
         IN  fewer \cup {c \cup {pt} : c \in fewer, pt \in pts}

-----------------------------------------------------------------------------
(* Specification of the safe-trace wrapper *)

SafePupils == {<<0, 0>>, <<0, 1>>}

InitSafe ==
    /\ opt_model \in {OptModel(b, e, Num(1)) : b \in {{}, {<<0, 1>>}}, e \in ErrOutcomes}
    /\ fld = Field0(0)
    /\ grid_rng = NoRng
    /\ call = NoCall
    /\ ret = NoRet

TraceSafeCall ==
    \E pupil \in SafePupils, wvl \in Wvls, output_filter \in OutputFilters,
       rayerr_filter \in RayerrFilters, use_named_tuples \in BOOLEAN :
        /\ call' = [op |-> "trace_safe", pupil |-> pupil, wvl |-> wvl,
                    output_filter |-> output_filter, rayerr_filter |-> rayerr_filter,
                    use_named_tuples |-> use_named_tuples,
                    traced |-> trace_base(opt_model, pupil, fld, wvl)]
        /\ ret' = [res |-> trace_safe(opt_model, pupil, fld, wvl, output_filter,
                                      rayerr_filter, use_named_tuples),
                   ntraces |-> 1]
        /\ UNCHANGED <<opt_model, fld, grid_rng>>

NextSafe == TraceSafeCall

SpecSafe == InitSafe /\ [][NextSafe]_vars

\* C1: trace_safe returns the value of the filter table and never lets a
\* TraceError escape: on a failed trace None / the error without its ray
\* package / the error with its partial ray package for rayerr_filter None /
\* 'summary' / 'full', whatever the output filter; on success the package /
\* (last segment, op_delta, wvl) / F(package) for output_filter None / 'last'
\* / F, whatever the error filter.
C1_FilterTable ==
    call.op = "trace_safe" =>
        /\ Returned(ret.res)
        /\ Raised(call.traced) =>
            LET e == call.traced.exc
                v == ret.res.value
            IN  /\ call.rayerr_filter = "None" => v = NoneV
                /\ call.rayerr_filter = "summary" =>
                      /\ IsTraceError(v) /\ v.kind = e.kind /\ v.surf = e.surf
                      /\ v.ray_pkg = NoneV
                /\ call.rayerr_filter = "full" =>
                      /\ IsTraceError(v) /\ v.kind = e.kind /\ v.surf = e.surf
                      /\ v.ray_pkg # NoneV
                      /\ v.ray_pkg.ray = e.ray_pkg.ray
                      /\ v.ray_pkg.op = e.ray_pkg.op
                      /\ v.ray_pkg.wvl = e.ray_pkg.wvl
        /\ Returned(call.traced) =>
            LET p == call.traced.value
                v == ret.res.value
            IN  /\ call.output_filter = "None" =>
                      /\ v.tag = "pkg" /\ v.ray = p.ray /\ v.op = p.op /\ v.wvl = p.wvl
                /\ call.output_filter = "last" =>
                      v = [tag |-> "final_seg_pkg", seg |-> p.ray[NumSurf],
                           op |-> p.op, wvl |-> p.wvl]
                /\ call.output_filter = "F_count" => v = Num(NumSurf)
                /\ call.output_filter = "F_none" => v = NoneV

C1_Witness ==
    /\ call.op = "trace_safe"
    /\ Raised(call.traced)
    /\ call.rayerr_filter = "full"
    /\ call.output_filter = "last"
    /\ Returned(ret.res)
    /\ IsTraceError(ret.res.value)
    /\ Len(ret.res.value.ray_pkg.ray) = 2

-----------------------------------------------------------------------------
(* iterate_ray *)

\* ray[ifcx][mc.p][1] on the list of segments of a completed trace
RayYAt(ray, ifcx) ==
    IF ifcx < Len(ray) THEN Return(Num(ray[ifcx + 1].p[2])) ELSE Raise(PyError("IndexError"))

\* ray[ifcx][mc.p][1] after `ray = err.ray_pkg`: ray is bound to the whole
\* (ray, op_delta, wvl) triple, so ifcx selects an element of the triple
PkgTupleYAt(pkg, ifcx) ==
    IF ifcx = 0
    THEN IF Len(pkg.ray) = 0
         THEN Raise(PyError("IndexError"))
         ELSE Return([tag |-> "vec3", v |-> pkg.ray[1].d])
    ELSE IF ifcx \in {1, 2}
         THEN Raise(PyError("TypeError"))
         ELSE Raise(PyError("IndexError"))

Residual(y, y_target) ==
    IF Raised(y) THEN y
    ELSE IF y.value.tag = "num"
         THEN Return(Num(y.value.v - y_target))
         ELSE Return([tag |-> "vec3", v |-> [i \in 1..3 |-> y.value.v[i] - y_target]])

y_stop_coordinate(o, ifcx, pt0, y1, wvl, y_target) ==
    LET t == rt_trace(o, pt0, <<0, y1>>, wvl)
    IN  IF Returned(t)
        THEN Residual(RayYAt(t.value.ray, ifcx), y_target)
        ELSE IF t.exc.kind = "miss"
             THEN IF t.exc.surf <= ifcx
                  THEN Raise(t.exc)
                  ELSE Residual(PkgTupleYAt(t.exc.ray_pkg, ifcx), y_target)
             ELSE IF t.exc.kind = "tir"
                  THEN IF t.exc.surf < ifcx
                       THEN Raise(t.exc)
                       ELSE Residual(PkgTupleYAt(t.exc.ray_pkg, ifcx), y_target)
                  ELSE Raise(t.exc)

surface_coordinate(o, ifcx, pt0, coord, wvl, target) ==
    LET t == rt_trace(o, pt0, coord, wvl)
    IN  IF Returned(t)
        THEN IF ifcx < Len(t.value.ray)
             THEN Return(Vec2(t.value.ray[ifcx + 1].p[1] - target[1],
                              t.value.ray[ifcx + 1].p[2] - target[2]))
             ELSE Raise(PyError("IndexError"))
        ELSE Raise(t.exc)

\* the root finders (scipy newton / fsolve) evaluate the residual at their
\* successive iterates; evs[k] is what the system does to the k-th ray, and
\* the k-th iterate is abstracted to k-1
Is1D(pt0, xy_target) == pt0[1] = 0 /\ xy_target[1] = 0

EvalAt(evs, k, ifcx, pt0, wvl, xy_target) ==
    IF Is1D(pt0, xy_target)
    THEN y_stop_coordinate(evs[k], ifcx, pt0, k - 1, wvl, xy_target[2])
    ELSE surface_coordinate(evs[k], ifcx, pt0, <<k - 1, k - 1>>, wvl, xy_target)

EvalLog(evs, ifcx, pt0, wvl, xy_target) ==
    [k \in 1..Len(evs) |->
        [o |-> evs[k], ifcx |-> ifcx, y_target |-> xy_target[2],
         oned |-> Is1D(pt0, xy_target),
         res |-> EvalAt(evs, k, ifcx, pt0, wvl, xy_target)]]

\* except TraceError: start_y = 0.0 / start_coords = [0., 0.]
OnTraceError(e) == Return(Vec2(0, 0))

\* solver: "root" when the finder returns, "RuntimeError" when it raises one;
\* the handler of RuntimeError reads `results`, which the failed call never
\* bound
iterate_ray(ifcx, xy_target, f, wvl, evs, solver) ==
    IF ifcx = NoneV
    THEN Return(Vec2(0 + xy_target[1], 0 + xy_target[2]))
    ELSE The({
        IF Raised(last)
        THEN IF IsTraceError(last.exc)
             THEN OnTraceError(last.exc)
             ELSE Raise(last.exc)
        ELSE IF Is1D(obj_coords(f), xy_target)
             THEN IF solver = "RuntimeError"
                  THEN Raise(PyError("UnboundLocalError"))
                  ELSE Return(Vec2(0, Len(evs) - 1))
             ELSE IF solver = "RuntimeError"
                  THEN Raise(PyError("RuntimeError"))
                  ELSE Return(Vec2(Len(evs) - 1, Len(evs) - 1))
        : last \in {EvalAt(evs, Len(evs), ifcx.v, obj_coords(f), wvl, xy_target)}})

\* the evaluations a call of iterate_ray makes
IterateLog(ifcx, xy_target, f, wvl, evs) ==
    IF ifcx = NoneV THEN <<>> ELSE EvalLog(evs, ifcx.v, obj_coords(f), wvl, xy_target)

aim_chief_ray(om, f, wvl, evs, solver) ==
    iterate_ray(om.stop, Origin, f, wvl, evs, solver)

-----------------------------------------------------------------------------
(* Specification of ray aiming *)

\* the outcomes a residual evaluation can meet
EvalOutcomes ==
    {OkOutcome}
        \cup {[kind |-> k, surf |-> s, plen |-> s] : k \in {"miss", "tir"}, s \in 0..(NumSurf - 1)}
        \cup {[kind |-> "generic", surf |-> 1, plen |-> 1]}

\* interior interfaces, or None for a floating stop
StopSurfaces == {NoneV} \cup {Num(i) : i \in 1..(NumSurf - 2)}

Solvers == {"root", "RuntimeError"}

\* the sequences of n evaluations the solver really makes: it makes another
\* one only after an evaluation that returned
RECURSIVE RunsOfLen(_, _, _, _, _)
RunsOfLen(n, ifcx, xy_target, f, wvl) ==
    IF n = 1
    THEN {<<o>> : o \in EvalOutcomes}
    ELSE LET shorter == RunsOfLen(n - 1, ifcx, xy_target, f, wvl)
             going == {r \in shorter :
                          Returned(EvalAt(r, n - 1, ifcx.v, obj_coords(f), wvl, xy_target))}
         IN  {Append(r, o) : r \in going, o \in EvalOutcomes}

RunsOf(ifcx, xy_target, f, wvl) ==
    IF ifcx = NoneV
    THEN {<<>>}
    ELSE UNION {RunsOfLen(n, ifcx, xy_target, f, wvl) : n \in 1..MaxEvals}

InitAim ==
    /\ opt_model \in {OptModel({}, OkOutcome, s) : s \in StopSurfaces}
    /\ fld \in {[Field0(0) EXCEPT !.x = x] : x \in {0, 1}}
    /\ grid_rng = NoRng
    /\ call = NoCall
    /\ ret = NoRet

IterateRayCall ==
    \E ifcx \in StopSurfaces, xy_target \in {<<0, 0>>, <<1, 1>>}, solver \in Solvers :
      \E evs \in RunsOf(ifcx, xy_target, fld, 550) :
        /\ call' = [op |-> "iterate_ray", ifcx |-> ifcx, xy_target |-> xy_target]
        /\ ret' = [res |-> iterate_ray(ifcx, xy_target, fld, 550, evs, solver),
                   evals |-> IterateLog(ifcx, xy_target, fld, 550, evs),
                   ntraces |-> Len(IterateLog(ifcx, xy_target, fld, 550, evs))]
        /\ UNCHANGED <<opt_model, fld, grid_rng>>

AimChiefRayCall ==
    \E solver \in Solvers :
      \E evs \in RunsOf(opt_model.stop, Origin, fld, 550) :
        /\ call' = [op |-> "aim_chief_ray", ifcx |-> opt_model.stop, xy_target |-> Origin]
        /\ ret' = [res |-> aim_chief_ray(opt_model, fld, 550, evs, solver),
                   evals |-> IterateLog(opt_model.stop, Origin, fld, 550, evs),
                   ntraces |-> Len(IterateLog(opt_model.stop, Origin, fld, 550, evs))]
        /\ UNCHANGED <<opt_model, fld, grid_rng>>

NextAim == IterateRayCall \/ AimChiefRayCall

SpecAim == InitAim /\ [][NextAim]_vars

IsAimCall == call.op \in {"iterate_ray", "aim_chief_ray"}

\* a 1D residual evaluation that met a MissedSurface / TIR failure
Is1DFailure(ev) == ev.oned /\ ev.o.kind \in {"miss", "tir"}

\* C2: in the 1D residual evaluation a MissedSurface or TIR failure at the
\* target interface ifcx or at ifcx-1 re-raises the error, and a failure at
\* ifcx+1 does not raise: the residual is the partial ray's y-coordinate at
\* interface ifcx minus the target.
C2_ReRaiseRule ==
    IsAimCall =>
        \A k \in 1..Len(ret.evals) :
            LET ev == ret.evals[k]
                pkg == MkPkg(obj_coords(fld), <<0, k - 1>>, 550, ev.o.plen)
            IN  Is1DFailure(ev) =>
                  /\ ev.o.surf \in {ev.ifcx, ev.ifcx - 1} =>
                        Raised(ev.res) /\ IsTraceError(ev.res.exc)
                  /\ ev.o.surf = ev.ifcx + 1 =>
                        ev.res = Return(Num(pkg.ray[ev.ifcx + 1].p[2] - ev.y_target))

\* C3: a TraceError raised by a residual evaluation leaves iterate_ray (and
\* aim_chief_ray) as that TraceError, not as an aim point.
C3_AimFailurePropagates ==
    IsAimCall =>
        \A k \in 1..Len(ret.evals) :
            (Raised(ret.evals[k].res) /\ IsTraceError(ret.evals[k].res.exc)) =>
                (Raised(ret.res) /\ ret.res.exc = ret.evals[k].res.exc)

-----------------------------------------------------------------------------
(* Chief-ray cache and pupil setup *)

\* transfer_to_exit_pupil(ifcs[-2], (cr.ray[-2][mc.p], cr.ray[-2][mc.d]), fod.exp_dist)
transfer_to_exit_pupil(cr) ==
    [tag |-> "exp_seg", pt |-> cr.ray[Len(cr.ray) - 1].p, dir |-> cr.ray[Len(cr.ray) - 1].d]

\* returns (cr, cr_exp_seg), or raises what trace_base raises
trace_chief_ray(om, f, wvl, foc) ==
    LET t == trace_base(om, Origin, f, wvl)
    IN  IF Raised(t) THEN t
        ELSE Return([tag |-> "chief_ray_pkg", cr |-> AsRayPkg(t.value, FALSE),
                     cr_exp_seg |-> transfer_to_exit_pupil(t.value)])

\* fld.chief_ray[0][2] != wvl
CachedAtOtherWvlOrFoc(f, wvl, foc) == f.chief_ray.cr.wvl # wvl \/ foc # 0

CachedAtOtherWvl(f, wvl, foc) == f.chief_ray.cr.wvl # wvl

\* [res, ntraces]: the package (or the exception) and the primitive traces made
get_chief_ray_pkg(om, f, wvl, foc, evs, solver) ==
    IF f.chief_ray = NoneV
    THEN The({
            IF Raised(aimed)
            THEN [res |-> aimed, ntraces |-> Len(evs)]
            ELSE [res |-> trace_chief_ray(om, f, wvl, foc), ntraces |-> Len(evs) + 1]
            : aimed \in {aim_chief_ray(om, f, wvl, evs, solver)}})
    ELSE IF CachedAtOtherWvl(f, wvl, foc)
         THEN [res |-> trace_chief_ray(om, f, wvl, foc), ntraces |-> 1]
         ELSE [res |-> Return(f.chief_ray), ntraces |-> 0]

\* waveabr.calculate_reference_sphere: derived from the chief-ray package and
\* the optional image point, reads the field only
calculate_reference_sphere(om, f, wvl, foc, chief_ray_pkg, image_pt_2d) ==
    [tag |-> "ref_sphere", wvl |-> wvl, foc |-> foc,
     image_pt |-> IF image_pt_2d = NoneV
                  THEN Vec2(chief_ray_pkg.cr.ray[Len(chief_ray_pkg.cr.ray)].p[1],
                            chief_ray_pkg.cr.ray[Len(chief_ray_pkg.cr.ray)].p[2])
                  ELSE image_pt_2d,
     cr_exp_seg |-> chief_ray_pkg.cr_exp_seg]

\* image_pt[:2]
ImagePt2d(image_pt) == IF image_pt = NoneV THEN NoneV ELSE Vec2(image_pt.x, image_pt.y)

\* (ref_sphere, chief_ray_pkg)
PupilCoords(om, f, wvl, foc, image_pt, chief_ray_pkg) ==
    [tag |-> "pair",
     ref_sphere |-> calculate_reference_sphere(om, f, wvl, foc, chief_ray_pkg,
                                               ImagePt2d(image_pt)),
     chief_ray_pkg |-> chief_ray_pkg]

\* [res, fld, ntraces]: fld is the field after the call
setup_pupil_coords_storing(om, f, wvl, foc, image_pt, evs, solver) ==
    The({
        IF Raised(g.res)
        THEN [res |-> g.res, fld |-> f, ntraces |-> g.ntraces]
        ELSE The({[res |-> Return(pc),
                   fld |-> [f EXCEPT !.chief_ray = pc.chief_ray_pkg,
                                     !.ref_sphere = pc.ref_sphere],
                   ntraces |-> g.ntraces]
                  : pc \in {PupilCoords(om, f, wvl, foc, image_pt, g.res.value)}})
        : g \in {get_chief_ray_pkg(om, f, wvl, foc, evs, solver)}})

setup_pupil_coords(om, f, wvl, foc, image_pt, evs, solver) ==
    The({
        IF Raised(g.res)
        THEN [res |-> g.res, fld |-> f, ntraces |-> g.ntraces]
        ELSE [res |-> Return(PupilCoords(om, f, wvl, foc, image_pt, g.res.value)),
              fld |-> f,
              ntraces |-> g.ntraces]
        : g \in {get_chief_ray_pkg(om, f, wvl, foc, evs, solver)}})

\* wave_abr_full_calc(fod, fld, wvl, foc, ray_pkg, chief_ray_pkg, ref_sphere)
wave_abr_full_calc(ray_pkg, chief_ray_pkg, ref_sphere) ==
    Num(ray_pkg.op - chief_ray_pkg.cr.op)

\* the part of trace_with_opd after the chief-ray package is at hand
OpdWithChief(om, pupil, f, wvl, foc, image_pt, chief_ray_pkg, ntraces) ==
    The({
        IF Raised(t)
        THEN [res |-> t, fld |-> f, ntraces |-> ntraces + 1]
        ELSE The({[res |-> Return([tag |-> "ray_opd", ray |-> t.value.ray,
                                   op |-> t.value.op, wvl |-> t.value.wvl,
                                   opd |-> wave_abr_full_calc(t.value, chief_ray_pkg,
                                                              pc.ref_sphere)]),
                   fld |-> [f EXCEPT !.chief_ray = chief_ray_pkg,
                                     !.ref_sphere = pc.ref_sphere],
                   ntraces |-> ntraces + 1]
                  : pc \in {PupilCoords(om, f, wvl, foc, image_pt, chief_ray_pkg)}})
        : t \in {trace_base(om, pupil, f, wvl)}})

trace_with_opd(om, pupil, f, wvl, foc, image_pt, evs, solver) ==
    The({
        IF Raised(g.res)
        THEN [res |-> g.res, fld |-> f, ntraces |-> g.ntraces]
        ELSE OpdWithChief(om, pupil, f, wvl, foc, image_pt, g.res.value, g.ntraces)
        : g \in {get_chief_ray_pkg(om, f, wvl, foc, evs, solver)}})

-----------------------------------------------------------------------------
(* Specification of the chief-ray cache *)

ChiefPoints == {<<0, 0>>, <<0, 1>>}
ImagePts == {NoneV, Vec2(0, 1)}

\* the aiming runs a chief-ray request makes: none unless the cache is empty
AimRunsOf(om, f, wvl) ==
    IF f.chief_ray = NoneV THEN RunsOf(om.stop, Origin, f, wvl) ELSE {<<>>}

InitChief ==
    /\ opt_model \in {OptModel(b, [kind |-> "miss", surf |-> 2, plen |-> 2], s) :
                        b \in FailSets(ChiefPoints, MaxFail),
                        s \in {NoneV, Num(1)}}
    /\ fld = Field0(0)
    /\ grid_rng = NoRng
    /\ call = NoCall
    /\ ret = NoRet

GetChiefRayPkgCall ==
    \E wvl \in Wvls, foc \in Focs, solver \in Solvers :
      \E evs \in AimRunsOf(opt_model, fld, wvl) :
      \E r \in {get_chief_ray_pkg(opt_model, fld, wvl, foc, evs, solver)} :
            /\ call' = [op |-> "get_chief_ray_pkg", wvl |-> wvl, foc |-> foc, fld |-> fld]
            /\ ret' = [res |-> r.res, ntraces |-> r.ntraces]
            /\ UNCHANGED <<opt_model, fld, grid_rng>>

SetupPupilCoordsCall ==
    \E wvl \in Wvls, foc \in Focs, image_pt \in ImagePts, solver \in Solvers :
      \E evs \in AimRunsOf(opt_model, fld, wvl) :
      \E r \in {setup_pupil_coords(opt_model, fld, wvl, foc, image_pt, evs, solver)} :
            /\ call' = [op |-> "setup_pupil_coords", wvl |-> wvl, foc |-> foc, fld |-> fld]
            /\ ret' = [res |-> r.res, ntraces |-> r.ntraces]
            /\ fld' = r.fld
            /\ UNCHANGED <<opt_model, grid_rng>>

TraceWithOpdCall ==
    \E wvl \in Wvls, foc \in Focs, image_pt \in ImagePts, solver \in Solvers :
      \E evs \in AimRunsOf(opt_model, fld, wvl) :
      \E r \in {trace_with_opd(opt_model, <<0, 1>>, fld, wvl, foc, image_pt, evs, solver)},
         g \in {get_chief_ray_pkg(opt_model, fld, wvl, foc, evs, solver)} :
            /\ call' = [op |-> "trace_with_opd", wvl |-> wvl, foc |-> foc, fld |-> fld,
                        image_pt |-> image_pt, chief |-> g.res]
            /\ ret' = [res |-> r.res, ntraces |-> r.ntraces]
            /\ fld' = r.fld
            /\ UNCHANGED <<opt_model, grid_rng>>

NextChief == GetChiefRayPkgCall \/ SetupPupilCoordsCall \/ TraceWithOpdCall

SpecChief == InitChief /\ [][NextChief]_vars

\* the request finds a package cached at its wavelength
CacheHit == call.fld.chief_ray # NoneV /\ call.fld.chief_ray.cr.wvl = call.wvl

\* C4: get_chief_ray_pkg returns the cached package without tracing exactly
\* when the field holds a package recorded at the requested wavelength;
\* otherwise it traces anew, and a package it then returns was traced at the
\* requested wavelength.  foc plays no part.
C4_CacheKeyIsWavelength ==
    call.op = "get_chief_ray_pkg" =>
        /\ CacheHit => (ret.res = Return(call.fld.chief_ray) /\ ret.ntraces = 0)
        /\ ~CacheHit =>
              /\ ret.ntraces >= 1
              /\ Returned(ret.res) =>
                    /\ ret.res.value.cr.wvl = call.wvl
                    /\ ret.res.value = trace_chief_ray(opt_model, call.fld, call.wvl, 0).value

C4_Witness ==
    /\ call.op = "get_chief_ray_pkg"
    /\ CacheHit
    /\ call.fld.ref_sphere.foc # call.foc
    /\ ret.ntraces = 0

\* C5: after a get_chief_ray_pkg call that missed and returned, fld.chief_ray
\* holds the returned package.
C5_MissCachesResult ==
    (call.op = "get_chief_ray_pkg" /\ ~CacheHit /\ Returned(ret.res)) =>
        fld.chief_ray = ret.res.value

-----------------------------------------------------------------------------
(* Batch sampling engines *)

\* osp.pupil.pupil_rays and osp.pupil.ray_labels
pupil_rays == <<<<0, 0>>, <<1, 0>>, <<-1, 0>>, <<0, 1>>, <<0, -1>>>>
ray_labels == <<"00", "+X", "-X", "+Y", "-Y">>

\* one pass of the loop body of trace_boundary_rays_at_field
rim_rays_append_dropping(rim_rays, t, use_named_tuples) ==
    IF Raised(t) THEN rim_rays
    ELSE Append(rim_rays, AsRayPkg(t.value, use_named_tuples))

rim_rays_append(rim_rays, t, use_named_tuples) ==
    IF Raised(t)
    THEN Append(rim_rays, AsRayPkg(t.exc.ray_pkg, use_named_tuples))
    ELSE Append(rim_rays, AsRayPkg(t.value, use_named_tuples))

\* for p in osp.pupil.pupil_rays: wvl is rebound to the wavelength of each
\* package
RECURSIVE rim_rays_loop(_, _, _, _, _, _)
rim_rays_loop(k, rim_rays, om, f, wvl, use_named_tuples) ==
    IF k > Len(pupil_rays) THEN rim_rays
    ELSE The({rim_rays_loop(k + 1, rim_rays_append(rim_rays, t, use_named_tuples), om, f,
                            IF Raised(t) THEN t.exc.ray_pkg.wvl ELSE t.value.wvl,
                            use_named_tuples)
              : t \in {trace_base(om, pupil_rays[k], f, wvl)}})

trace_boundary_rays_at_field(om, f, wvl, use_named_tuples) ==
    Return(rim_rays_loop(1, <<>>, om, f, wvl, use_named_tuples))

\* for ray, lbl in zip(rim_rays, ray_labels): pupil_rays[lbl] = ray
RECURSIVE boundary_ray_loop(_, _, _)
boundary_ray_loop(k, rim_rays, d) ==
    IF k > Len(rim_rays) \/ k > Len(ray_labels) THEN d
    ELSE boundary_ray_loop(k + 1, rim_rays,
                           [l \in (DOMAIN d) \cup {ray_labels[k]} |->
                               IF l = ray_labels[k] THEN rim_rays[k] ELSE d[l]])

boundary_ray_dict(rim_rays) == boundary_ray_loop(1, rim_rays, <<>>)

ImgFilters == {"None", "F_tag", "F_skip"}

\* the caller's img_filter(pupil, result): F_tag answers for every cell,
\* F_skip answers None for a missing result
ApplyImgFilter(F, pupil, result) ==
    IF F = "F_tag"
    THEN [tag |-> "img", x |-> pupil[1], y |-> pupil[2], missing |-> result = NoneV]
    ELSE IF result = NoneV THEN NoneV
         ELSE [tag |-> "img", x |-> pupil[1], y |-> pupil[2], missing |-> FALSE]

\* (stop - start)/(num - 1), for ranges whose extent is a multiple of num - 1
StepOf(rng) ==
    <<(rng.stop[1] - rng.start[1]) \div (rng.num - 1),
      (rng.stop[2] - rng.start[2]) \div (rng.num - 1)>>

\* for r in range(num) of trace_fan: [status, fan]
RECURSIVE fan_loop(_, _, _, _, _, _, _, _)
fan_loop(r, start, step, num, fan, om, f, img_filter) ==
    IF r = num THEN [res |-> Return(fan), ntraces |-> r]
    ELSE The({
        IF Raised(t)
        THEN [res |-> t, ntraces |-> r + 1]
        ELSE fan_loop(r + 1, <<start[1] + step[1], start[2] + step[2]>>, step, num,
                      Append(fan, [tag |-> "fan", x |-> start[1], y |-> start[2],
                                   item |-> IF img_filter # "None"
                                            THEN ApplyImgFilter(img_filter, start, t.value)
                                            ELSE t.value]),
                      om, f, img_filter)
        : t \in {trace_base(om, start, f, 550)}})

trace_fan(om, fan_rng, f, img_filter) ==
    fan_loop(0, fan_rng.start, StepOf(fan_rng), fan_rng.num, <<>>, om, f, img_filter)

\* [pupil[0], pupil[1], ray_result]
Cell(pupil, ray_result) == [tag |-> "cell", x |-> pupil[1], y |-> pupil[2], r |-> ray_result]

\* the per-cell append of trace_grid
grid_cell_and(working_grid, pupil, ray_result, img_filter, append_if_none) ==
    IF ray_result # NoneV
    THEN IF img_filter # "None"
         THEN Append(working_grid, ApplyImgFilter(img_filter, pupil, ray_result))
         ELSE Append(working_grid, Cell(pupil, ray_result))
    ELSE IF img_filter # "None"
         THEN IF ApplyImgFilter(img_filter, pupil, NoneV) # NoneV /\ append_if_none
              THEN Append(working_grid, ApplyImgFilter(img_filter, pupil, NoneV))
              ELSE working_grid
         ELSE IF append_if_none
              THEN Append(working_grid, Cell(pupil, NoneV))
              ELSE working_grid

grid_cell(working_grid, pupil, ray_result, img_filter, append_if_none) ==
    IF ray_result # NoneV
    THEN IF img_filter # "None"
         THEN Append(working_grid, ApplyImgFilter(img_filter, pupil, ray_result))
         ELSE Append(working_grid, Cell(pupil, ray_result))
    ELSE IF img_filter # "None"
         THEN IF ApplyImgFilter(img_filter, pupil, NoneV) # NoneV \/ append_if_none
              THEN Append(working_grid, ApplyImgFilter(img_filter, pupil, NoneV))
              ELSE working_grid
         ELSE IF append_if_none
              THEN Append(working_grid, Cell(pupil, NoneV))
              ELSE working_grid

\* for j in range(num): start[1] += step[1] after each cell
RECURSIVE grid_cols(_, _, _, _)
grid_cols(j, start, working_grid, c) ==
    IF j = c.num THEN [working_grid |-> working_grid, start |-> start]
    ELSE grid_cols(j + 1, <<start[1], start[2] + c.step[2]>>,
                   grid_cell(working_grid, start,
                             trace_safe(c.om, start, c.f, 550, "None", "None", FALSE).value,
                             c.img_filter, c.append_if_none),
                   c)

\* for i in range(num): a row is appended to grid itself (form 'list') or to
\* a grid_row that is then appended to grid (form 'grid'); afterwards
\* start[0] += step[0] and start[1] = grid_rng[0][1]
RECURSIVE grid_rows(_, _, _, _)
grid_rows(i, start, grid, c) ==
    IF i = c.num THEN [grid |-> grid, start |-> start]
    ELSE The({grid_rows(i + 1, <<row.start[1] + c.step[1], c.y0>>,
                        IF c.form = "grid" THEN Append(grid, row.working_grid)
                        ELSE row.working_grid,
                        c)
              : row \in {grid_cols(0, start, IF c.form = "grid" THEN <<>> ELSE grid, c)}})

\* start = np.array(grid_rng[0]) is a copy: the caller's range keeps its value
GridRngAfterAliased(rng, start) == [rng EXCEPT !.start = start]

GridRngAfter(rng, start) == rng

\* kwargs: the keyword options the caller gave ("absent" when not given)
HasFilterOption(kwargs) == kwargs.output_filter # "absent" \/ kwargs.rayerr_filter # "absent"

\* [res, grid_rng, ntraces]
trace_grid(om, rng, f, img_filter, form, append_if_none, kwargs) ==
    IF HasFilterOption(kwargs)
    THEN \* trace_safe(..., output_filter, rayerr_filter, check_apertures=True, **kwargs)
         \* gets output_filter / rayerr_filter twice
         [res |-> Raise(PyError("TypeError")), grid_rng |-> GridRngAfter(rng, rng.start),
          ntraces |-> 0]
    ELSE The({
        IF form \notin {"list", "grid"} /\ Len(g.grid) > 0
        THEN \* working_grid was never bound
             [res |-> Raise(PyError("UnboundLocalError")),
              grid_rng |-> GridRngAfter(rng, g.start), ntraces |-> rng.num * rng.num]
        ELSE [res |-> Return(g.grid), grid_rng |-> GridRngAfter(rng, g.start),
              ntraces |-> rng.num * rng.num]
        : g \in {grid_rows(0, rng.start, <<>>,
                           [om |-> om, f |-> f, num |-> rng.num, step |-> StepOf(rng),
                            y0 |-> rng.start[2], img_filter |-> img_filter, form |-> form,
                            append_if_none |-> append_if_none])}})

-----------------------------------------------------------------------------
(* Specification of the batch engines *)

BatchPts == {<<0, 0>>, <<1, 0>>, <<0, 1>>, <<-1, 0>>}

BatchErrs == {[kind |-> "miss", surf |-> 2, plen |-> 2],
              [kind |-> "generic", surf |-> 1, plen |-> 1]}

\* pupil ranges of GridNum samples per axis, one unit apart
PupilRngs ==
    {[start |-> s, stop |-> <<s[1] + (GridNum - 1), s[2] + (GridNum - 1)>>, num |-> GridNum] :
        s \in {<<-1, -1>>, <<0, 0>>}}

KwargSets ==
    {[output_filter |-> o, rayerr_filter |-> r] :
        o \in {"absent", "last"}, r \in {"absent", "full"}}
        \ {[output_filter |-> "last", rayerr_filter |-> "full"]}

InitBatch ==
    /\ opt_model \in {OptModel(b, e, Num(1)) : b \in FailSets(BatchPts, MaxFail), e \in BatchErrs}
    /\ fld = Field0(0)
    /\ grid_rng \in PupilRngs
    /\ call = NoCall
    /\ ret = NoRet

TraceBoundaryRaysAtFieldCall ==
    \E use_named_tuples \in BOOLEAN :
        /\ call' = [op |-> "trace_boundary_rays_at_field",
                    use_named_tuples |-> use_named_tuples]
        /\ ret' = [res |-> trace_boundary_rays_at_field(opt_model, fld, 550, use_named_tuples),
                   ntraces |-> Len(pupil_rays)]
        /\ UNCHANGED <<opt_model, fld, grid_rng>>

\* boundary_ray_dict on the rim rays just traced, as trace_boundary_rays does
BoundaryRayDictCall ==
    /\ call.op = "trace_boundary_rays_at_field"
    /\ Returned(ret.res)
    /\ call' = [op |-> "boundary_ray_dict", rim_rays |-> ret.res.value]
    /\ ret' = [res |-> Return(boundary_ray_dict(ret.res.value)), ntraces |-> 0]
    /\ UNCHANGED <<opt_model, fld, grid_rng>>

TraceFanCall ==
    \E img_filter \in ImgFilters :
      \E r \in {trace_fan(opt_model, grid_rng, fld, img_filter)} :
        /\ call' = [op |-> "trace_fan", rng |-> grid_rng, img_filter |-> img_filter]
        /\ ret' = r
        /\ UNCHANGED <<opt_model, fld, grid_rng>>

\* the options of a trace_grid call other than its form
GridOptions(img_filter, append_if_none, kwargs) ==
    [img_filter |-> img_filter, append_if_none |-> append_if_none, kwargs |-> kwargs]

TraceGridCall ==
    \E img_filter \in ImgFilters, form \in {"list", "grid", "other"},
       append_if_none \in BOOLEAN, kwargs \in KwargSets :
      \E r \in {trace_grid(opt_model, grid_rng, fld, img_filter, form, append_if_none, kwargs)} :
        /\ call' = [op |-> "trace_grid", rng |-> grid_rng, fld |-> fld, form |-> form,
                    options |-> GridOptions(img_filter, append_if_none, kwargs),
                    \* the call before this one, when it was the same grid request
                    again |-> IF call.op = "trace_grid"
                                 /\ call.options = GridOptions(img_filter, append_if_none, kwargs)
                              THEN call.form ELSE "no",
                    before |-> IF call.op = "trace_grid"
                                  /\ call.options = GridOptions(img_filter, append_if_none, kwargs)
                               THEN ret.res ELSE Return(NoneV)]
        /\ ret' = [res |-> r.res, ntraces |-> r.ntraces]
        /\ grid_rng' = r.grid_rng
        /\ UNCHANGED <<opt_model, fld>>

NextBatch ==
    \/ TraceBoundaryRaysAtFieldCall
    \/ BoundaryRayDictCall
    \/ TraceFanCall
    \/ TraceGridCall

SpecBatch == InitBatch /\ [][NextBatch]_vars

\* the samples a batch call has to process
SamplesOf(c) ==
    IF c.op = "trace_boundary_rays_at_field" THEN Len(pupil_rays)
    ELSE IF c.op = "trace_fan" THEN c.rng.num
    ELSE c.rng.num * c.rng.num

IsBatchCall ==
    \/ call.op \in {"trace_boundary_rays_at_field", "trace_fan"}
    \/ /\ call.op = "trace_grid"
       /\ ~HasFilterOption(call.options.kwargs)
       /\ call.form \in {"list", "grid"}

\* C7: whichever samples fail to trace, trace_boundary_rays_at_field,
\* trace_fan and trace_grid process every sample and return normally.
C7_BatchNeverAborts ==
    IsBatchCall => (Returned(ret.res) /\ ret.ntraces = SamplesOf(call))

\* what the system does to the i-th canonical pupil sample
RimOutcome(i) == SystemOutcome(opt_model, pupil_rays[i])

\* C8: trace_boundary_rays_at_field returns one package per canonical pupil
\* sample, in the order of pupil_rays, the i-th being the full package of the
\* i-th sample or, when its trace fails, the error's partial package; and
\* boundary_ray_dict maps the i-th label to the i-th package.
C8_OnePackagePerSample ==
    /\ call.op = "trace_boundary_rays_at_field" =>
          /\ Returned(ret.res)
          /\ Len(ret.res.value) = Len(pupil_rays)
          /\ \A i \in 1..Len(pupil_rays) :
                /\ ret.res.value[i].ray =
                      MkPkg(obj_coords(fld), pupil_rays[i], 550,
                            IF RimOutcome(i).kind = "ok" THEN NumSurf
                            ELSE RimOutcome(i).plen).ray
                /\ ret.res.value[i].wvl = 550
    /\ call.op = "boundary_ray_dict" =>
          /\ DOMAIN ret.res.value = {ray_labels[i] : i \in 1..Len(ray_labels)}
          /\ \A i \in 1..Len(ray_labels) : ret.res.value[ray_labels[i]] = call.rim_rays[i]

C8_Witness ==
    /\ call.op = "boundary_ray_dict"
    /\ Len(call.rim_rays) = Len(pupil_rays)
    /\ Len(call.rim_rays[2].ray) < NumSurf
    /\ Len(call.rim_rays[3].ray) = NumSurf
    /\ ret.res.value["+X"] = call.rim_rays[2]

RECURSIVE Flatten(_)
Flatten(rows) == IF Len(rows) = 0 THEN <<>> ELSE Head(rows) \o Flatten(Tail(rows))

\* the entries of a returned grid, row after row
FlatOf(form, value) == IF form = "grid" THEN Flatten(value) ELSE value

\* the pupil coordinates of the grid, row-major
CellsOf(rng) ==
    [k \in 1..(rng.num * rng.num) |->
        <<rng.start[1] + ((k - 1) \div rng.num) * StepOf(rng)[1],
          rng.start[2] + ((k - 1) % rng.num) * StepOf(rng)[2]>>]

\* the cell's safe-trace result is absent
Absent(pupil) == Raised(trace_base(opt_model, pupil, call.fld, 550))

\* what the append policy lets a cell contribute
EntriesOf(pupil, img_filter, append_if_none) ==
    IF Absent(pupil)
    THEN IF img_filter # "None"
         THEN IF ApplyImgFilter(img_filter, pupil, NoneV) # NoneV \/ append_if_none
              THEN <<ApplyImgFilter(img_filter, pupil, NoneV)>>
              ELSE <<>>
         ELSE IF append_if_none THEN <<Cell(pupil, NoneV)>> ELSE <<>>
    ELSE IF img_filter # "None"
         THEN <<ApplyImgFilter(img_filter, pupil,
                               trace_base(opt_model, pupil, call.fld, 550).value)>>
         ELSE <<Cell(pupil, trace_base(opt_model, pupil, call.fld, 550).value)>>

RECURSIVE EntriesFrom(_, _, _, _)
EntriesFrom(k, cells, img_filter, append_if_none) ==
    IF k > Len(cells) THEN <<>>
    ELSE EntriesOf(cells[k], img_filter, append_if_none)
            \o EntriesFrom(k + 1, cells, img_filter, append_if_none)

\* C9: a grid cell whose safe-trace result is absent contributes
\* img_filter(pupil, None) iff that value is not None or append_if_none is set
\* (with an img_filter), the placeholder [pupil_x, pupil_y, None] iff
\* append_if_none is set (without one); a cell whose result is present
\* contributes exactly one entry.
C9_AppendPolicy ==
    (call.op = "trace_grid" /\ Returned(ret.res)) =>
        FlatOf(call.form, ret.res.value) =
            EntriesFrom(1, CellsOf(call.rng), call.options.img_filter,
                        call.options.append_if_none)

C9_Witness ==
    /\ call.op = "trace_grid"
    /\ Returned(ret.res)
    /\ call.form = "grid"
    /\ call.options.img_filter = "F_skip"
    /\ ~call.options.append_if_none
    /\ Len(ret.res.value) = call.rng.num
    /\ Len(FlatOf("grid", ret.res.value)) = call.rng.num * call.rng.num - 2

\* C10: trace_grid leaves grid_rng and the field as they were, the same
\* request made again yields the same output, placeholders included, and the
\* 'list' output holds the entries of the rows of the 'grid' output.
C10_Repeatable ==
    call.op = "trace_grid" =>
        /\ grid_rng = call.rng
        /\ fld = call.fld
        /\ call.again = call.form => ret.res = call.before
        /\ (/\ call.again \in {"list", "grid"}
            /\ call.form \in {"list", "grid"}
            /\ Returned(ret.res)) =>
              /\ Returned(call.before)
              /\ FlatOf(call.form, ret.res.value) = FlatOf(call.again, call.before.value)

C10_Witness ==
    /\ call.op = "trace_grid"
    /\ call.again = "list"
    /\ call.form = "grid"
    /\ call.options.append_if_none
    /\ call.options.img_filter = "None"
    /\ Returned(ret.res)
    /\ \E i \in 1..Len(call.before.value) : call.before.value[i].r = NoneV

-----------------------------------------------------------------------------
(* Exact arithmetic: a float is a fraction in lowest terms, and a division  *)
(* by zero yields no number                                                 *)

Abs(n) == IF n < 0 THEN -n ELSE n

RECURSIVE Gcd(_, _)
Gcd(a, b) == IF b = 0 THEN a ELSE Gcd(b, a % b)

NaN == [tag |-> "nan"]

Frac(n, d) ==
    IF d = 0 THEN NaN
    ELSE LET g == Gcd(Abs(n), Abs(d))
             sgn == IF d < 0 THEN -1 ELSE 1
         IN [tag |-> "frac", n |-> sgn * (n \div g), d |-> sgn * (d \div g)]

\* numpy vectors of three components
cross(a, b) ==
    <<a[2] * b[3] - a[3] * b[2], a[3] * b[1] - a[1] * b[3], a[1] * b[2] - a[2] * b[1]>>
dot(a, b) == a[1] * b[1] + a[2] * b[2] + a[3] * b[3]
vsub(a, b) == <<a[1] - b[1], a[2] - b[2], a[3] - b[3]>>
vscale(k, a) == <<k * a[1], k * a[2], k * a[3]>>

-----------------------------------------------------------------------------
(* intersect_2_lines *)

\* largest line parameter of the intersection point in the lines drawn
MaxParam == 2

intersect_2_lines(P1, V1, P2, V2) ==
    LET Vx == cross(V1, V2)
    IN Frac(dot(cross(vsub(P2, P1), V1), Vx), dot(Vx, Vx))

LineDirs == {<<1, 0, 1>>, <<-1, 0, 1>>, <<0, 1, 1>>, <<0, 1, 2>>, <<1, 0, 2>>}
MeetPts == {<<0, 0, 3>>, <<1, -1, 0>>}
Params == (-MaxParam)..MaxParam

InitLines ==
    /\ opt_model = NoneV
    /\ fld = NoneV
    /\ grid_rng = NoRng
    /\ call = NoCall
    /\ ret = NoRet

\* two lines through a common point (or parallel ones, for equal directions)
Intersect2LinesCall ==
    \E Q \in MeetPts, V1 \in LineDirs, V2 \in LineDirs, a \in Params, b \in Params :
        \E P1 \in {vsub(Q, vscale(a, V1))}, P2 \in {vsub(Q, vscale(b, V2))} :
            /\ call' = [op |-> "intersect_2_lines", P1 |-> P1, V1 |-> V1, P2 |-> P2, V2 |-> V2]
            /\ ret' = [res |-> Return(intersect_2_lines(P1, V1, P2, V2)), ntraces |-> 0]
            /\ UNCHANGED <<opt_model, fld, grid_rng>>

NextLines == Intersect2LinesCall

SpecLines == InitLines /\ [][NextLines]_vars

\* the lines of the call meet at P1 + a V1 = P2 + b V2
MeetAt(a, b) ==
    /\ cross(call.V1, call.V2) # <<0, 0, 0>>
    /\ vsub(call.P1, vscale(-a, call.V1)) = vsub(call.P2, vscale(-b, call.V2))

\* C11: for two non-parallel lines that meet at Q, the value returned by
\* intersect_2_lines is the distance s from P1 along V1: P1 + s V1 = Q.
C11_DistanceFromP1 ==
    call.op = "intersect_2_lines" =>
        \A a \in Params, b \in Params :
            MeetAt(a, b) => ret.res = Return(Frac(a, 1))

\* what the expression computes: the parameter along the second line
C11_ParamAlongSecondLine ==
    call.op = "intersect_2_lines" =>
        \A a \in Params, b \in Params :
            MeetAt(a, b) => ret.res = Return(Frac(b, 1))

-----------------------------------------------------------------------------
(* Arithmetic on fractions; NaN is contagious *)

IsNumber(q) == q.tag = "frac"
Zero == Frac(0, 1)
One == Frac(1, 1)

RAdd(p, q) ==
    IF IsNumber(p) /\ IsNumber(q) THEN Frac(p.n * q.d + q.n * p.d, p.d * q.d) ELSE NaN
RNeg(p) == IF IsNumber(p) THEN Frac(-p.n, p.d) ELSE NaN
RSub(p, q) == RAdd(p, RNeg(q))
RMul(p, q) == IF IsNumber(p) /\ IsNumber(q) THEN Frac(p.n * q.n, p.d * q.d) ELSE NaN
RDiv(p, q) == IF IsNumber(p) /\ IsNumber(q) THEN Frac(p.n * q.d, p.d * q.n) ELSE NaN
RSquare(p) == RMul(p, p)

\* math.sqrt, exact on the squares of fractions; a negative argument is a
\* ValueError, raised by the caller of RSqrt
IsSquare(q) == /\ \E k \in 0..q.n : k * k = q.n
               /\ \E k \in 1..q.d : k * k = q.d
ISqrt(n) == CHOOSE k \in 0..n : k * k = n
RSqrt(q) == Frac(ISqrt(q.n), ISqrt(q.d))
Negative(q) == q.n < 0

rdot(a, b) == RAdd(RMul(a[1], b[1]), RAdd(RMul(a[2], b[2]), RMul(a[3], b[3])))
norm(a) == RSqrt(rdot(a, a))

-----------------------------------------------------------------------------
(* trace_coddington_fan *)

\* interfaces of the sequential model of a Coddington trace (object .. image)
NumIfcs == 3

cosI_prime(r) == RDiv(rdot(r.d, r.nrml), norm(r.nrml))
sinI_prime(cp) == RSqrt(RSub(One, RSquare(cp)))
sinI(after_rind, before_rind, cp) == RDiv(RMul(after_rind, sinI_prime(cp)), before_rind)
cosI(si) == RSqrt(RSub(One, RSquare(si)))

\* the mutation: the sum of the two index-cosine products
obl_power_sum(power, after_rind, before_rind, cp, ci) ==
    IF power # Zero
    THEN RMul(power, RDiv(RAdd(RMul(after_rind, cp), RMul(before_rind, ci)),
                          RSub(after_rind, before_rind)))
    ELSE power

obl_power(power, after_rind, before_rind, cp, ci) ==
    IF power # Zero
    THEN RMul(power, RDiv(RSub(RMul(after_rind, cp), RMul(before_rind, ci)),
                          RSub(after_rind, before_rind)))
    ELSE power

\* the loop's variables before the first pass
CodStart(rndx0) ==
    [before_rind |-> rndx0, before_dir |-> NoneV, s_before |-> NoneV, t_before |-> NoneV,
     s_prime |-> NoneV, t_prime |-> NoneV, raised |-> NoneV, log |-> <<>>]

\* first pass: the running vergences start at the object
cod_first(st, r, after_rind) ==
    [st EXCEPT !.s_before = RNeg(r.dst), !.t_before = RNeg(r.dst),
               !.before_rind = after_rind, !.before_dir = r.d,
               !.log = Append(@, [first |-> TRUE, after_dst |-> r.dst,
                                  s_before |-> RNeg(r.dst), t_before |-> RNeg(r.dst)])]

\* a later pass, from the angles and the oblique power to the new vergences
cod_update(st, r, power, after_rind, cp, ci, obl) ==
    The({The({
        [st EXCEPT !.s_prime = sp, !.t_prime = tp,
                   !.s_before = RSub(sp, r.dst), !.t_before = RSub(tp, r.dst),
                   !.before_rind = after_rind, !.before_dir = r.d,
                   !.log = Append(@, [first |-> FALSE, n |-> st.before_rind,
                                      n_prime |-> after_rind, cosI_prime |-> cp,
                                      cosI |-> ci, power |-> power, obl_power |-> obl,
                                      s |-> st.s_before, t |-> st.t_before,
                                      s_prime |-> sp, t_prime |-> tp])]
        : tp \in {RDiv(RMul(after_rind, RSquare(cp)),
                       RAdd(RDiv(RMul(st.before_rind, RSquare(ci)), st.t_before), obl))}})
        : sp \in {RDiv(after_rind, RAdd(RDiv(st.before_rind, st.s_before), obl))}})

cod_raise(st, name) == [st EXCEPT !.raised = PyError(name)]

cod_pass(st, r, power, after_rind) ==
    IF st.before_dir = NoneV THEN cod_first(st, r, after_rind)
    ELSE The({
        IF Negative(RSub(One, RSquare(cp))) THEN cod_raise(st, "ValueError")
        ELSE The({
            IF Negative(RSub(One, RSquare(si))) THEN cod_raise(st, "ValueError")
            ELSE The({The({
                cod_update(st, r, power, after_rind, cp, ci, obl)
                : obl \in {obl_power(power, after_rind, st.before_rind, cp, ci)}})
                : ci \in {cosI(si)}})
            : si \in {sinI(after_rind, st.before_rind, cp)}})
        : cp \in {cosI_prime(r)}})

\* zip_longest over the ray, the interfaces and the indices: an exhausted
\* index list gives None, which stands for the index before the interface
RECURSIVE cod_loop(_, _, _, _, _)
cod_loop(ray, ifcs, rndx, i, st) ==
    IF i > Len(ray) \/ st.raised # NoneV THEN st
    ELSE The({cod_loop(ray, ifcs, rndx, i + 1, st2)
              : st2 \in {cod_pass(st, ray[i], ifcs[i],
                                  IF i <= Len(rndx) THEN rndx[i] ELSE st.before_rind)}})

dfoc(prime, r, foc) ==
    The({IF foc # NoneV THEN RSub(v, foc) ELSE v
         : v \in {RAdd(RMul(prime, r.d[3]), r.p[3])}})

trace_coddington_fan(seq_model, ray, foc) ==
    The({
        IF st.raised # NoneV THEN [res |-> Raise(st.raised), log |-> st.log]
        ELSE IF st.s_prime = NoneV
        THEN [res |-> Raise(PyError("UnboundLocalError")), log |-> st.log]
        ELSE [res |-> Return(<<dfoc(st.s_prime, ray[Len(ray)], foc),
                               dfoc(st.t_prime, ray[Len(ray)], foc)>>),
              log |-> st.log]
        : st \in {cod_loop(ray, seq_model.ifcs, seq_model.rndx, 1, CodStart(seq_model.rndx[1]))}})

\* the inputs: refractive indices, optical powers, unit ray directions in the
\* meridional plane, distances to the next interface
RIndices == {One, Frac(4, 3)}
Powers == {Zero, Frac(1, 2)}
UnitZ == <<Zero, Zero, One>>
CodDirs == {UnitZ, <<Zero, Frac(4, 5), Frac(3, 5)>>}
CodDsts == {One, Frac(2, 1)}
CodFocs == {NoneV, One}
CodSeg(dir, dst) == [p |-> <<Zero, Zero, Zero>>, d |-> dir, dst |-> dst, nrml |-> UnitZ]

RECURSIVE SeqsOf(_, _)
SeqsOf(S, n) ==
    IF n = 0 THEN {<<>>} ELSE {Append(q, x) : q \in SeqsOf(S, n - 1), x \in S}

SeqModels ==
    {[ifcs |-> <<Zero>> \o p, rndx |-> n] :
        p \in SeqsOf(Powers, NumIfcs - 1),
        n \in SeqsOf(RIndices, NumIfcs) \cup SeqsOf(RIndices, NumIfcs - 1)}

CodRays ==
    {<<CodSeg(UnitZ, d0)>> \o m \o <<CodSeg(dl, One)>> :
        d0 \in CodDsts,
        m \in SeqsOf({CodSeg(dir, dst) : dir \in CodDirs, dst \in CodDsts}, NumIfcs - 2),
        dl \in CodDirs}

\* every square root of the trace is taken of the square of a fraction
RECURSIVE ExactFrom(_, _, _, _)
ExactFrom(ray, rndx, i, before_rind) ==
    IF i > Len(ray) THEN TRUE
    ELSE \E after_rind \in {IF i <= Len(rndx) THEN rndx[i] ELSE before_rind},
            cp \in {cosI_prime(ray[i])} :
             /\ \E a \in {RSub(One, RSquare(cp))} : Negative(a) \/ IsSquare(a)
             /\ \E si \in {sinI(after_rind, before_rind, cp)} :
                    \E a \in {RSub(One, RSquare(si))} : Negative(a) \/ IsSquare(a)
             /\ ExactFrom(ray, rndx, i + 1, after_rind)

\* the chief ray has been traced (trace_astigmatism_coddington_fan)
InitCoddington ==
    /\ opt_model \in SeqModels
    /\ fld = NoneV
    /\ grid_rng = NoRng
    /\ call = [op |-> "trace_base"]
    /\ \E ray \in CodRays :
        /\ ExactFrom(ray, opt_model.rndx, 2, opt_model.rndx[1])
        /\ ret = [res |-> Return(ray), ntraces |-> 1]

TraceCoddingtonFanCall ==
    \E foc \in CodFocs,
       ray \in {IF call.op = "trace_base" THEN ret.res.value ELSE call.ray_pkg} :
        \E r \in {trace_coddington_fan(opt_model, ray, foc)} :
            /\ call' = [op |-> "trace_coddington_fan", ray_pkg |-> ray, foc |-> foc]
            /\ ret' = [res |-> r.res, ntraces |-> 0, log |-> r.log]
            /\ UNCHANGED <<opt_model, fld, grid_rng>>

NextCoddington == TraceCoddingtonFanCall

SpecCoddington == InitCoddington /\ [][NextCoddington]_vars

\* C12: the first interface sets both running vergences to minus the distance
\* to the next interface; at a later interface with cos(I') = 1 and n' # n
\* the oblique power is the optical power itself, so that n'/s' = n/s + power
\* for the sagittal and for the tangential vergence; where the optical power
\* is 0 the oblique power is 0.
C12_NormalIncidence ==
    call.op = "trace_coddington_fan" =>
        \A i \in 1..Len(ret.log) :
            \E e \in {ret.log[i]} :
                IF e.first
                THEN /\ i = 1
                     /\ e.s_before = RNeg(e.after_dst)
                     /\ e.t_before = RNeg(e.after_dst)
                ELSE /\ i > 1
                     /\ e.power = Zero => e.obl_power = Zero
                     /\ (e.cosI_prime = One /\ e.n_prime # e.n) =>
                          /\ e.obl_power = e.power
                          /\ IsNumber(e.s_prime) =>
                               RDiv(e.n_prime, e.s_prime) = RAdd(RDiv(e.n, e.s), e.power)
                          /\ IsNumber(e.t_prime) =>
                               RDiv(e.n_prime, e.t_prime) = RAdd(RDiv(e.n, e.t), e.power)

C12_Witness ==
    /\ call.op = "trace_coddington_fan"
    /\ Returned(ret.res)
    /\ Len(ret.log) = NumIfcs
    /\ ret.log[1].s_before = Frac(-2, 1)
    /\ \E i \in 2..Len(ret.log) :
        /\ ret.log[i].cosI_prime = One
        /\ ret.log[i].n_prime # ret.log[i].n
        /\ ret.log[i].power # Zero
        /\ IsNumber(ret.log[i].s_prime)
        /\ IsNumber(ret.log[i].t_prime)
    /\ \E i \in 2..Len(ret.log) : ret.log[i].cosI_prime # One

-----------------------------------------------------------------------------
(* trace_grid with filter options *)

\* the filter a keyword option names; None when the option is not given
FilterOf(kwargs, name) == IF kwargs[name] = "absent" THEN "None" ELSE kwargs[name]

\* C13: given output_filter and/or rayerr_filter as keyword options,
\* trace_grid traces every cell through trace_safe with those filters and
\* returns a grid whose cells hold the filtered results (stated for the
\* calls without an img_filter that keep absent cells).
C13_GridAppliesFilters ==
    (/\ call.op = "trace_grid"
     /\ HasFilterOption(call.options.kwargs)
     /\ call.form \in {"list", "grid"}
     /\ call.options.img_filter = "None"
     /\ call.options.append_if_none) =>
        /\ Returned(ret.res)
        /\ ret.ntraces = call.rng.num * call.rng.num
        /\ FlatOf(call.form, ret.res.value) =
            [k \in 1..(call.rng.num * call.rng.num) |->
                Cell(CellsOf(call.rng)[k],
                     trace_safe(opt_model, CellsOf(call.rng)[k], call.fld, 550,
                                FilterOf(call.options.kwargs, "output_filter"),
                                FilterOf(call.options.kwargs, "rayerr_filter"),
                                FALSE).value)]

-----------------------------------------------------------------------------
(* trace_astigmatism and trace_astigmatism_curve *)

\* most field samples of an astigmatism curve
NumPoints == 3

\* np.linspace(0., stop, num=num), for a stop that num - 1 divides
linspace(stop, num) ==
    [k \in 1..num |-> IF num = 1 THEN 0 ELSE ((k - 1) * stop) \div (num - 1)]

\* [0, 0], [dx, 0], [0, dy], [-dx, 0], [0, -dy] with dx = dy = one pupil unit
AstigPupils == <<<<0, 0>>, <<1, 0>>, <<0, 1>>, <<-1, 0>>, <<0, -1>>>>

\* s * rlist[k].ray[-1][mc.d][2] - foc
focus_shift(s, seg, foc) == RSub(RMul(s, Frac(seg.d[3], 1)), Frac(foc, 1))

\* intersect_2_lines on the image-space segments of two rays
close_ray_focus(pkg1, pkg2, foc) ==
    focus_shift(intersect_2_lines(LastSeg(pkg1).p, LastSeg(pkg1).d,
                                  LastSeg(pkg2).p, LastSeg(pkg2).d),
                LastSeg(pkg1), foc)

\* [res, ntraces]: (s_foc, t_foc), or the exception of the first of the five
\* traces that fails
trace_astigmatism(om, f, wvl, foc) ==
    The({
        IF \E k \in 1..5 : Raised(rlist[k])
        THEN The({[res |-> rlist[k], ntraces |-> k]
                  : k \in {CHOOSE k \in 1..5 :
                              Raised(rlist[k]) /\ \A j \in 1..(k - 1) : Returned(rlist[j])}})
        ELSE [res |-> Return(<<close_ray_focus(rlist[2].value, rlist[4].value, foc),
                               close_ray_focus(rlist[3].value, rlist[5].value, foc)>>),
              ntraces |-> 5]
        : rlist \in {[k \in 1..5 |-> trace_base(om, AstigPupils[k], f, wvl)]}})

\* the part of a pass after setup_pupil_coords returned: the package and the
\* reference sphere are stored on the field, then the close rays are traced
RECURSIVE curve_loop(_, _, _, _)
curve_store(k, samples, acc, c, sp) ==
    The({The({
        IF Raised(a.res)
        THEN [res |-> a.res,
              log |-> Append(acc.log, [f |-> samples[k],
                                       cr_pkg |-> sp.res.value.chief_ray_pkg]),
              ntraces |-> acc.ntraces + sp.ntraces + a.ntraces]
        ELSE curve_loop(k + 1, samples,
                        [fld |-> f2,
                         field_data |-> Append(acc.field_data, samples[k]),
                         s_data |-> Append(acc.s_data, a.res.value[1]),
                         t_data |-> Append(acc.t_data, a.res.value[2]),
                         log |-> Append(acc.log, [f |-> samples[k],
                                                  cr_pkg |-> sp.res.value.chief_ray_pkg]),
                         ntraces |-> acc.ntraces + sp.ntraces + a.ntraces],
                        c)
        : a \in {trace_astigmatism(c.om, f2, c.wvl, c.foc)}})
        : f2 \in {[sp.fld EXCEPT !.chief_ray = sp.res.value.chief_ray_pkg,
                                 !.ref_sphere = sp.res.value.ref_sphere]}})

\* for f in np.linspace(0., max_field, num=num_points), with fld.y = f first
curve_loop(k, samples, acc, c) ==
    IF k > Len(samples)
    THEN [res |-> Return([field_data |-> acc.field_data, s_data |-> acc.s_data,
                          t_data |-> acc.t_data]),
          log |-> acc.log, ntraces |-> acc.ntraces]
    ELSE The({
        IF Raised(sp.res)
        THEN [res |-> sp.res, log |-> acc.log, ntraces |-> acc.ntraces + sp.ntraces]
        ELSE curve_store(k, samples, acc, c, sp)
        : sp \in {setup_pupil_coords(c.om, [acc.fld EXCEPT !.y = samples[k]], c.wvl, c.foc,
                                     NoneV,
                                     IF acc.fld.chief_ray = NoneV THEN c.evs ELSE <<>>,
                                     c.solver)}})

\* [res, log, ntraces]: log holds, for every sample whose pupil setup
\* returned, the sample's field value and the chief-ray package obtained
trace_astigmatism_curve(om, num_points, max_field, wvl, foc, evs, solver) ==
    curve_loop(1, linspace(max_field, num_points),
               [fld |-> Field0(0), field_data |-> <<>>, s_data |-> <<>>, t_data |-> <<>>,
                log |-> <<>>, ntraces |-> 0],
               [om |-> om, wvl |-> wvl, foc |-> foc, evs |-> evs, solver |-> solver])

CurvePts == {<<0, 0>>, <<1, 0>>, <<0, -1>>}

\* spacing of the field samples: max_field is (num_points - 1) spacings
FieldSteps == {0, 1}

InitCurve ==
    /\ opt_model \in {OptModel(b, [kind |-> "miss", surf |-> 2, plen |-> 2], s) :
                        b \in FailSets(CurvePts, MaxFail),
                        s \in {NoneV, Num(1)}}
    /\ fld = Field0(0)
    /\ grid_rng = NoRng
    /\ call = NoCall
    /\ ret = NoRet

TraceAstigmatismCurveCall ==
    \E num_points \in 1..NumPoints, step \in FieldSteps, foc \in Focs, solver \in Solvers :
      \E evs \in RunsOf(opt_model.stop, Origin, Field0(0), 550) :
      \E r \in {trace_astigmatism_curve(opt_model, num_points, step * (num_points - 1),
                                        550, foc, evs, solver)} :
            /\ call' = [op |-> "trace_astigmatism_curve", num_points |-> num_points,
                        max_field |-> step * (num_points - 1), wvl |-> 550, foc |-> foc]
            /\ ret' = [res |-> r.res, ntraces |-> r.ntraces, log |-> r.log]
            /\ UNCHANGED <<opt_model, fld, grid_rng>>

NextCurve == TraceAstigmatismCurveCall

SpecCurve == InitCurve /\ [][NextCurve]_vars

\* C14: during the field scan of trace_astigmatism_curve the chief-ray
\* package obtained, stored and used at a sample is the one traced with the
\* field at that sample's value; the cache never serves the package of an
\* earlier, different field coordinate.
C14_ScanCacheCoherent ==
    call.op = "trace_astigmatism_curve" =>
        \A i \in 1..Len(ret.log) :
            Return(ret.log[i].cr_pkg) =
                trace_chief_ray(opt_model, [Field0(0) EXCEPT !.y = ret.log[i].f],
                                call.wvl, call.foc)

\* what the scan does: every sample gets the package traced at the first one
C14_FirstPackageServed ==
    call.op = "trace_astigmatism_curve" =>
        \A i \in 1..Len(ret.log) : ret.log[i].cr_pkg = ret.log[1].cr_pkg

====
